---- MODULE Spec2Model ----
(***************************************************************************)
(* pdf_search: the indexing pipeline of app/backend (indexer.py,           *)
(* database.py) and the endpoints of main.py that drive it.                *)
(*                                                                         *)
(* One asyncio event loop runs the endpoint handlers and the               *)
(* run_indexing_async tasks; a handler or a task runs without              *)
(* interruption up to its next await, so each is one action here.          *)
(* _run_indexing runs in a thread of the default executor, concurrently    *)
(* with the loop: it is a process with a program counter, one step per     *)
(* statement that reads or writes state shared with the loop, the disk or  *)
(* the database (every store_* call commits on its own).                   *)
(***************************************************************************)
EXTENDS Integers, Sequences, FiniteSets, TLC

\* ------------------------------------------------------------ bounds
MaxEvents == 3        \* moves of the environment: requests handled, restarts,
                      \* files changed, database calls made to fail
MaxRowId == 3         \* largest rowid a table hands out (SQLITE_FULL after)
NumSlots == 2

\* The largest number of words on the page _render_page is given.
MaxWords == 2         \* threads of the default executor

\* ------------------------------------------------------------ constants
MIN_TEXT_LENGTH == 50

\* ------------------------------------------------------------ paths
\* A path is the sequence of its components below "/": /data is <<"data">>.
DATA_DIR == <<"data">>

SubDir == <<"data", "sub">>

\* The PDF files the environment may hold.
FileA == <<"data", "a.pdf">>

FileSubA == <<"data", "sub", "a.pdf">>

AllFiles == {FileA, FileSubA}

\* str.__lt__ on the component names in use, as a rank.
NameRank(n) == CASE n = "a.pdf" -> 1 [] n = "data" -> 2 [] n = "sub" -> 3 [] OTHER -> 4

\* Path.__lt__: lexicographic on the components.
RECURSIVE PathLess(_, _)
PathLess(p, q) ==
    IF q = <<>> THEN FALSE
    ELSE IF p = <<>> THEN TRUE
    ELSE IF NameRank(Head(p)) # NameRank(Head(q))
         THEN NameRank(Head(p)) < NameRank(Head(q))
         ELSE PathLess(Tail(p), Tail(q))

\* p.relative_to(base) succeeds iff base is a leading part of p.
IsUnder(p, base) == Len(base) <= Len(p) /\ SubSeq(p, 1, Len(base)) = base

RelativeTo(p, base) == SubSeq(p, Len(base) + 1, Len(p))

PathName(p) == p[Len(p)]

\* The paths in descending order.
sorted_descending(S) ==
    CHOOSE s \in [1..Cardinality(S) -> S] :
        /\ \A i, j \in 1..Cardinality(S) : i < j => PathLess(s[j], s[i])

\* sorted(S) for a set of paths.
Sorted(S) ==
    CHOOSE s \in [1..Cardinality(S) -> S] :
        /\ \A i, j \in 1..Cardinality(S) : i < j => PathLess(s[i], s[j])

\* ------------------------------------------------------------ PDF contents
\* A file's content is identified by its fingerprint (_sha256 of the bytes);
\* Absent marks a path with no file. A content is either unparsable (corrupt)
\* or a sequence of pages; a page has the length of its trimmed native text
\* and the length of the text OCR returns for it (-1: OCR raises).
Absent == 0

Fingerprints == {1, 2, 3}

Corrupt(c) == c = 3

Pages(c) ==
    CASE c = 1 -> << [native |-> 80, ocr |-> 0], [native |-> 49, ocr |-> 0] >>
      [] c = 2 -> << [native |-> 10, ocr |-> 60], [native |-> 50, ocr |-> 0],
                     [native |-> 10, ocr |-> -1] >>
      [] OTHER -> << >>

\* The text a page yields, as stored: where it came from and its length.
Text(src, len) == [src |-> src, len |-> len]

\* _extract_text_pdfplumber (trimmed native text) of page i of content c.
NativeLen(c, i) == Pages(c)[i].native

\* OCR only for a page with no native text at all.
ocr_when_empty(n) == n = 0

\* len(text) < MIN_TEXT_LENGTH: the native text is insufficient.
NeedsOcr(n) == n < MIN_TEXT_LENGTH

\* ------------------------------------------------------------ state
VARIABLES
    disk,          \* the PDF files: path -> fingerprint of the content, or Absent
    db,            \* the SQLite database (persists across restarts)
    current_dir,   \* indexer._current_dir
    status,        \* indexer.status (IndexingStatus)
    lock,          \* indexer._lock is held
    tasks,         \* run_indexing_async tasks created and not yet scheduled: their full_reindex
    workers,       \* executor threads running _run_indexing, and the coroutine awaiting each
    env,           \* counters of the environment's moves, and the outcome of the last run
    hist,          \* what earlier steps did, for the properties below: outcome (how the
                   \* last run of this process ended), prevInc (it was incremental and
                   \* returned), quiet (no file, scope or index change from outside since
                   \* the last run began), unrec (the files it left without a record),
                   \* scoped (_current_dir was ever changed), delTick/delArg (the last
                   \* delete_file_by_name call), pending (set_current_dir succeeded
                   \* and no full reindex that listed under _current_dir has
                   \* returned since)
    changes,       \* the last response of GET /changes-detected
    render         \* the frame of _render_page serving GET /page-image

vars == <<disk, db, current_dir, status, lock, tasks, workers, env, hist, changes, render>>

Slots == 1..NumSlots

\* IndexingStatus() as constructed.
NewStatus ==
    [is_running |-> FALSE, total_files |-> 0, processed_files |-> 0,
     current_file |-> "", errors |-> <<>>]

\* init_db on a fresh database file: three empty tables; seq_* is the largest
\* rowid each AUTOINCREMENT table has handed out (sqlite_sequence).
EmptyDb ==
    [files |-> {}, pages |-> {}, fts |-> {}, seq_files |-> 0, seq_pages |-> 0]

\* No page of the file was extracted yet.
NoPage == [page |-> 0, native |-> 0, ocr_ran |-> FALSE, len |-> 0]

\* The frame of a thread: the locals of _run_indexing and _index_single_file,
\* and what the run did so far (extracted: the page last extracted, whether
\* _ocr_page_image was called for it and the length of the resulting text;
\* root: _current_dir when the run listed its files).
IdleWorker ==
    [pc |-> "idle", full |-> FALSE, pdf_files |-> <<>>, i |-> 0,
     rel_path |-> <<>>, file_hash |-> 0, file_id |-> 0, pdf |-> 0, page |-> 0,
     failed |-> FALSE, errs0 |-> 0, created |-> {}, gone |-> {}, second |-> FALSE,
     unrec |-> {}, bad |-> {}, extracted |-> NoPage, root |-> <<>>]

\* The environment's moves so far, and the tasks dropped at the guard.
NewEnv == [events |-> 0, dropped |-> 0]

\* The environment may move.
MayMove == env.events < MaxEvents

Moved == [env EXCEPT !.events = @ + 1]

Busy(s) == workers[s].pc # "idle"

\* ------------------------------------------------------------ database.py
\* A lookup that never finds the record.
never_indexed(d, filename, file_hash) == FALSE

\* file_already_indexed(filename, file_hash)
file_already_indexed(d, filename, file_hash) ==
    \E r \in d.files : r.filename = filename /\ r.file_hash = file_hash

\* store_file: INSERT and commit; the new row's id is returned.
store_file(d, filename, file_hash) ==
    [d EXCEPT !.files = @ \cup {[id |-> d.seq_files + 1, filename |-> filename,
                                 file_hash |-> file_hash]},
              !.seq_files = @ + 1]

\* store_page: INSERT INTO pdf_pages, INSERT INTO pdf_pages_fts with the page's
\* rowid, one commit.
store_page(d, file_id, page_number, content) ==
    [d EXCEPT !.pages = @ \cup {[id |-> d.seq_pages + 1, file_id |-> file_id,
                                 page_number |-> page_number, content |-> content]},
              !.fts = @ \cup {[rowid |-> d.seq_pages + 1, content |-> content]},
              !.seq_pages = @ + 1]

\* delete_file_by_name with the row fetchone() returned: the three DELETEs of
\* that file_id, one commit.
delete_row(d, file_id) ==
    LET pids == {p.id : p \in {q \in d.pages : q.file_id = file_id}} IN
    [d EXCEPT !.fts = {e \in @ : e.rowid \notin pids},
              !.pages = {p \in @ : p.file_id # file_id},
              !.files = {r \in @ : r.id # file_id}]

\* get_indexed_filenames
get_indexed_filenames(d) == {r.filename : r \in d.files}

\* An INSERT fails with SQLITE_FULL once the table has handed out its largest rowid.
FilesFull(d) == d.seq_files >= MaxRowId

PagesFull(d) == d.seq_pages >= MaxRowId

\* ------------------------------------------------------------ indexer.py: scope
\* The characters of the component names, for str.startswith.
Chars(n) ==
    CASE n = "data"  -> <<"d", "a", "t", "a">>
      [] n = "data2" -> <<"d", "a", "t", "a", "2">>
      [] n = "sub"   -> <<"s", "u", "b">>
      [] n = "a.pdf" -> <<"a", ".", "p", "d", "f">>
      [] OTHER       -> <<"?">>

\* str(path) of an absolute path.
RECURSIVE Str(_)
Str(p) == IF p = <<>> THEN <<>> ELSE <<"/">> \o Chars(Head(p)) \o Str(Tail(p))

StartsWith(a, b) == Len(b) <= Len(a) /\ SubSeq(a, 1, Len(b)) = b

\* Path.resolve(): ".." removes the component before it (no symlinks here).
RECURSIVE Resolve(_, _)
Resolve(done, rest) ==
    IF rest = <<>> THEN done
    ELSE IF Head(rest) = ".."
         THEN Resolve(IF done = <<>> THEN <<>> ELSE SubSeq(done, 1, Len(done) - 1), Tail(rest))
         ELSE Resolve(Append(done, Head(rest)), Tail(rest))

\* The directories that exist.
Dirs == {<<>>, DATA_DIR, SubDir, <<"data2">>}

\* The path arguments of /set-directory: "", "sub", "missing", "../data2", "..".
ScopeInputs == {<<>>, <<"sub">>, <<"missing">>, <<"..", "data2">>, <<"..">>}

\* set_current_dir(path): the new _current_dir, or "ValueError".
set_current_dir(path) ==
    IF path = <<>> THEN [ok |-> TRUE, dir |-> DATA_DIR]
    ELSE LET target == Resolve(<<>>, DATA_DIR \o path) IN
         IF ~StartsWith(Str(target), Str(Resolve(<<>>, DATA_DIR)))
         THEN [ok |-> FALSE, dir |-> <<>>]
         ELSE IF target \notin Dirs
              THEN [ok |-> FALSE, dir |-> <<>>]
              ELSE [ok |-> TRUE, dir |-> target]

\* ------------------------------------------------------------ initial state
\* No GET /changes-detected was answered yet.
NoChanges == [tick |-> FALSE, resp |-> "none"]

\* No GET /page-image is being served.
NoRender ==
    [pc |-> "idle", words |-> <<>>, query |-> <<>>, k |-> 0, img |-> {},
     failed |-> FALSE, out |-> "none"]

\* startup(): init_db, then the task run_indexing_async() is created.
Started ==
    /\ disk \in {d \in [AllFiles -> Fingerprints] : d[FileSubA] = 1}
    /\ db = EmptyDb
    /\ current_dir = DATA_DIR
    /\ status = NewStatus
    /\ lock = FALSE
    /\ tasks = << FALSE >>
    /\ workers = [s \in Slots |-> IdleWorker]
    /\ env = NewEnv
    /\ hist = [outcome |-> "none", prevInc |-> FALSE, quiet |-> FALSE, unrec |-> {},
               scoped |-> FALSE, delTick |-> FALSE, delArg |-> <<>>, pending |-> FALSE]
    /\ changes = NoChanges

Init == Started /\ render = NoRender

\* ------------------------------------------------------------ main.py: endpoints
\* asyncio.create_task(run_indexing_async(full_reindex=full))
create_task(full) ==
    /\ tasks' = Append(tasks, full)
    /\ env' = Moved

NoTask ==
    /\ tasks' = tasks
    /\ env' = Moved

\* POST /reindex
reindex_endpoint ==
    /\ MayMove
    /\ IF status.is_running THEN NoTask ELSE create_task(TRUE)
    /\ UNCHANGED <<disk, db, current_dir, status, lock, workers, hist, changes, render>>

\* POST /set-directory
set_directory_endpoint(path) ==
    LET r == set_current_dir(path) IN
    /\ MayMove
    /\ IF ~r.ok
       THEN NoTask /\ UNCHANGED <<current_dir, hist>>
       ELSE /\ current_dir' = r.dir
            /\ hist' = [hist EXCEPT !.quiet = @ /\ r.dir = current_dir,
                                    !.scoped = @ \/ r.dir # current_dir,
                                    !.pending = TRUE]
            /\ IF status.is_running THEN NoTask ELSE create_task(TRUE)
    /\ UNCHANGED <<disk, db, status, lock, workers, changes, render>>

\* rglob("*.pdf") under a directory: the files on disk below it.
rglob(dir) == {f \in AllFiles : disk[f] # Absent /\ IsUnder(f, dir)}

\* The paths of check_for_changes' disk_files, relative to a directory.
DiskRel(dir) == {RelativeTo(f, dir) : f \in rglob(dir)}

\* A comparison that counts the paths on disk and not indexed only.
new_files_only(dir, d) ==
    LET new_count == Cardinality(DiskRel(dir) \ get_indexed_filenames(d)) IN
    [has_changes |-> new_count # 0, new_files |-> new_count, deleted_files |-> 0]

\* check_for_changes() with _current_dir = dir and the database d
check_for_changes(dir, d) ==
    LET disk_files == DiskRel(dir)
        indexed_files == get_indexed_filenames(d)
        new_count == Cardinality(disk_files \ indexed_files)
        deleted_count == Cardinality(indexed_files \ disk_files) IN
    [has_changes |-> new_count # 0 \/ deleted_count # 0,
     new_files |-> new_count, deleted_files |-> deleted_count]

\* GET /changes-detected
changes_detected_endpoint ==
    /\ MayMove
    /\ env' = Moved
    /\ changes' = [tick |-> ~changes.tick,
                   resp |-> IF status.is_running
                            THEN [has_changes |-> FALSE, new_files |-> 0,
                                  deleted_files |-> 0]
                            ELSE check_for_changes(current_dir, db)]
    /\ UNCHANGED <<disk, db, current_dir, status, lock, tasks, workers, hist, render>>

\* ------------------------------------------------------------ run_indexing_async
\* A guard that never sees the lock held.
locked_never == FALSE

\* _lock.locked()
locked == lock

\* The thread run_in_executor hands _run_indexing to.
FreeSlot == CHOOSE s \in Slots : ~Busy(s) /\ \A t \in Slots : t < s => Busy(t)

\* A request that stays queued until the lock is free.
keep_task(ts) == ts

\* What becomes of the task list when the head task returns at the guard.
drop_task(ts) == Tail(ts)

\* The task at the head of the loop's ready queue runs up to its await: it
\* returns at the guard, or takes the lock, sets is_running and submits
\* _run_indexing to the executor.
run_indexing_async_enter ==
    /\ tasks # <<>>
    /\ IF locked
       THEN /\ tasks' = drop_task(tasks)
            /\ env' = [env EXCEPT !.dropped = @ + 1]
            /\ UNCHANGED <<lock, status, workers>>
       ELSE /\ \E s \in Slots : ~Busy(s)
            /\ tasks' = Tail(tasks)
            /\ lock' = TRUE
            /\ status' = [status EXCEPT !.is_running = TRUE]
            /\ workers' = [workers EXCEPT ![FreeSlot] =
                              [IdleWorker EXCEPT !.pc = "begin", !.full = Head(tasks)]]
            /\ env' = env
    /\ UNCHANGED <<disk, db, current_dir, hist, changes, render>>

\* is_running reset after the await instead of in a finally clause.
status_unless_raised(st, pc) ==
    IF pc = "raised" THEN st ELSE [st EXCEPT !.is_running = FALSE]

\* finally: status.is_running = False, whatever _run_indexing did.
finally_status(st, pc) == [st EXCEPT !.is_running = FALSE]

\* The executor's future is done: the task resumes, runs the finally clause and
\* leaves `async with`, releasing the lock.
run_indexing_async_resume(s) ==
    /\ workers[s].pc \in {"returned", "raised"}
    /\ status' = finally_status(status, workers[s].pc)
    /\ lock' = FALSE
    /\ workers' = [workers EXCEPT ![s] = IdleWorker]
    /\ hist' = [hist EXCEPT !.outcome = workers[s].pc,
                            !.prevInc = workers[s].pc = "returned" /\ ~workers[s].full,
                            !.unrec = workers[s].unrec,
                            !.pending = @ /\ ~(/\ workers[s].pc = "returned"
                                                /\ workers[s].full
                                                /\ workers[s].root = current_dir)]
    /\ UNCHANGED <<disk, db, current_dir, tasks, env, changes, render>>

\* ------------------------------------------------------------ _run_indexing
\* One step of the thread in slot s: w is its new frame.
Step(s, w) == workers' = [workers EXCEPT ![s] = w]

\* A database call may fail (sqlite3.Error: I/O error, disk full, ...): always
\* when its table is full, otherwise when the environment makes it.
CanFail(full) == full \/ MayMove

Faulted(full) == env' = IF full THEN env ELSE Moved

\* line 113: status.errors = []
run_begin(s) ==
    LET w == workers[s] IN
    /\ w.pc = "begin"
    /\ status' = [status EXCEPT !.errors = <<>>]
    /\ Step(s, [w EXCEPT !.pc = IF w.full THEN "clear_fts" ELSE "list",
                         !.second = ~w.full /\ hist.prevInc /\ hist.quiet,
                         !.gone = get_indexed_filenames(db) \ DiskRel(current_dir)])
    /\ hist' = [hist EXCEPT !.quiet = TRUE]
    /\ UNCHANGED <<disk, db, current_dir, lock, tasks, env, changes, render>>

\* clear_index runs its script outside a transaction (executescript): each
\* DELETE commits on its own, and a failing statement ends the script and raises
\* out of _run_indexing, which does not catch it.
clear_fts(s) ==
    LET w == workers[s] IN
    /\ w.pc = "clear_fts"
    /\ \/ db' = [db EXCEPT !.fts = {}] /\ Step(s, [w EXCEPT !.pc = "clear_pages"]) /\ env' = env
       \/ CanFail(FALSE) /\ Faulted(FALSE) /\ db' = db /\ Step(s, [w EXCEPT !.pc = "raised"])
    /\ UNCHANGED <<disk, current_dir, status, lock, tasks, hist, changes, render>>

clear_pages(s) ==
    LET w == workers[s] IN
    /\ w.pc = "clear_pages"
    /\ \/ db' = [db EXCEPT !.pages = {}] /\ Step(s, [w EXCEPT !.pc = "clear_files"]) /\ env' = env
       \/ CanFail(FALSE) /\ Faulted(FALSE) /\ db' = db /\ Step(s, [w EXCEPT !.pc = "raised"])
    /\ UNCHANGED <<disk, current_dir, status, lock, tasks, hist, changes, render>>

clear_files(s) ==
    LET w == workers[s] IN
    /\ w.pc = "clear_files"
    /\ \/ db' = [db EXCEPT !.files = {}] /\ Step(s, [w EXCEPT !.pc = "list"]) /\ env' = env
       \/ CanFail(FALSE) /\ Faulted(FALSE) /\ db' = db /\ Step(s, [w EXCEPT !.pc = "raised"])
    /\ UNCHANGED <<disk, current_dir, status, lock, tasks, hist, changes, render>>

\* lines 118-119: pdf_files = sorted(rglob), status.total_files = len(pdf_files)
run_list(s) ==
    LET w == workers[s]
        files == Sorted(rglob(current_dir)) IN
    /\ w.pc = "list"
    /\ status' = [status EXCEPT !.total_files = Len(files)]
    /\ Step(s, [w EXCEPT !.pc = "reset", !.pdf_files = files, !.root = current_dir])
    /\ UNCHANGED <<disk, db, current_dir, lock, tasks, env, hist, changes, render>>

\* line 120: status.processed_files = 0
run_reset(s) ==
    LET w == workers[s] IN
    /\ w.pc = "reset"
    /\ status' = [status EXCEPT !.processed_files = 0]
    /\ Step(s, [w EXCEPT !.pc = "loop", !.i = 1])
    /\ UNCHANGED <<disk, db, current_dir, lock, tasks, env, hist, changes, render>>

\* lines 122-123 and 131: the loop head sets current_file; after the last file
\* current_file is cleared and _run_indexing returns.
run_loop(s) ==
    LET w == workers[s] IN
    /\ w.pc = "loop"
    /\ IF w.i <= Len(w.pdf_files)
       THEN /\ status' = [status EXCEPT !.current_file = PathName(w.pdf_files[w.i])]
            /\ Step(s, [w EXCEPT !.pc = "detect", !.failed = FALSE,
                                 !.errs0 = Len(status.errors)])
       ELSE /\ status' = [status EXCEPT !.current_file = ""]
            /\ Step(s, [w EXCEPT !.pc = "returned"])
    /\ UNCHANGED <<disk, db, current_dir, lock, tasks, env, hist, changes, render>>

\* except Exception in _index_single_file (lines 106-108)
inner_except(st, rel_path, exc) ==
    [st EXCEPT !.errors = Append(@, [file |-> rel_path, exc |-> exc])]

\* except Exception in _run_indexing (lines 126-128)
outer_except(st, pdf_path, exc) ==
    [st EXCEPT !.errors = Append(@, [file |-> <<PathName(pdf_path)>>, exc |-> exc])]

\* _run_indexing without its handler: the exception ends the run.
OuterUncaught(w, exc) == [w EXCEPT !.pc = "raised", !.failed = TRUE]

\* The frame after an exception reached the handler of _run_indexing: no file
\* record was written for the file.
OuterFailed(w, exc) ==
    [w EXCEPT !.pc = "next", !.failed = TRUE,
              !.unrec = @ \cup {w.pdf_files[w.i]},
              !.bad = @ \cup {[path |-> w.pdf_files[w.i], file_id |-> 0]}]

\* The frame after an exception reached the handler of _index_single_file.
InnerFailed(w) ==
    [w EXCEPT !.pc = "next", !.failed = TRUE,
              !.bad = @ \cup {[path |-> w.pdf_files[w.i], file_id |-> w.file_id]}]

\* lines 88-93: rel_path, _sha256, file_already_indexed
index_detect(s) ==
    LET w == workers[s]
        pdf_path == w.pdf_files[w.i]
        rel == RelativeTo(pdf_path, current_dir)
        h == disk[pdf_path] IN
    /\ w.pc = "detect"
    /\ IF ~IsUnder(pdf_path, current_dir)
       THEN /\ status' = outer_except(status, pdf_path, "ValueError")
            /\ Step(s, OuterFailed(w, "ValueError"))
       ELSE IF h = Absent
       THEN /\ status' = outer_except(status, pdf_path, "FileNotFoundError")
            /\ Step(s, OuterFailed(w, "FileNotFoundError"))
       ELSE /\ status' = status
            /\ Step(s, [w EXCEPT !.rel_path = rel, !.file_hash = h,
                                 !.pc = IF file_already_indexed(db, rel, h)
                                        THEN "next" ELSE "store_file"])
    /\ UNCHANGED <<disk, db, current_dir, lock, tasks, env, hist, changes, render>>

\* line 96: file_id = store_file(rel_path, file_hash)
index_store_file(s) ==
    LET w == workers[s]
        pdf_path == w.pdf_files[w.i] IN
    /\ w.pc = "store_file"
    /\ \/ /\ ~FilesFull(db)
          /\ db' = store_file(db, w.rel_path, w.file_hash)
          /\ status' = status
          /\ env' = env
          /\ Step(s, [w EXCEPT !.pc = "open", !.file_id = db.seq_files + 1,
                               !.created = @ \cup {db.seq_files + 1}])
       \/ /\ CanFail(FilesFull(db))
          /\ Faulted(FilesFull(db))
          /\ db' = db
          /\ status' = outer_except(status, pdf_path, "StoreError")
          /\ Step(s, OuterFailed(w, "StoreError"))
    /\ UNCHANGED <<disk, current_dir, lock, tasks, hist, changes, render>>

\* line 99: pdfplumber.open(pdf_path)
index_open(s) ==
    LET w == workers[s]
        c == disk[w.pdf_files[w.i]] IN
    /\ w.pc = "open"
    /\ IF c = Absent \/ Corrupt(c)
       THEN /\ status' = inner_except(status, w.rel_path, "ExtractionError")
            /\ Step(s, InnerFailed(w))
       ELSE /\ status' = status
            /\ Step(s, [w EXCEPT !.pc = "page", !.pdf = c, !.page = 1,
                                 !.extracted = NoPage])
    /\ UNCHANGED <<disk, db, current_dir, lock, tasks, env, hist, changes, render>>

\* _ocr_page_image(pdf_path, i): convert_from_path opens the file again by its
\* path; -1 stands for an exception, 0 for the empty string.
ocr_page_image(pdf_path, i) ==
    LET c == disk[pdf_path] IN
    IF c = Absent \/ Corrupt(c) THEN -1
    ELSE IF i > Len(Pages(c)) THEN 0
    ELSE Pages(c)[i].ocr

\* lines 100-105, one page: extract, OCR when the text is short, store_page
\* when there is text.
index_page(s) ==
    LET w == workers[s]
        native == NativeLen(w.pdf, w.page)
        ocr == ocr_page_image(w.pdf_files[w.i], w.page)
        text == IF NeedsOcr(native) THEN Text("ocr", ocr) ELSE Text("native", native)
        w1 == [w EXCEPT !.extracted = [page |-> w.page, native |-> native,
                                       ocr_ran |-> NeedsOcr(native), len |-> text.len]]
        nextPage == [w1 EXCEPT !.page = @ + 1] IN
    /\ w.pc = "page"
    /\ IF w.page > Len(Pages(w.pdf))
       THEN /\ Step(s, [w EXCEPT !.pc = "next"])
            /\ UNCHANGED <<db, status, env>>
       ELSE IF text.len < 0
       THEN /\ status' = inner_except(status, w.rel_path, "ExtractionError")
            /\ Step(s, InnerFailed(w1))
            /\ UNCHANGED <<db, env>>
       ELSE IF text.len = 0
       THEN /\ Step(s, nextPage)
            /\ UNCHANGED <<db, status, env>>
       ELSE \/ /\ ~PagesFull(db)
               /\ db' = store_page(db, w.file_id, w.page, text)
               /\ status' = status
               /\ env' = env
               /\ Step(s, nextPage)
            \/ /\ CanFail(PagesFull(db))
               /\ Faulted(PagesFull(db))
               /\ db' = db
               /\ status' = inner_except(status, w.rel_path, "StoreError")
               /\ Step(s, InnerFailed(w1))
    /\ UNCHANGED <<disk, current_dir, lock, tasks, hist, changes, render>>

\* line 129: status.processed_files += 1
run_next(s) ==
    LET w == workers[s] IN
    /\ w.pc = "next"
    /\ status' = [status EXCEPT !.processed_files = @ + 1]
    /\ Step(s, [w EXCEPT !.pc = "loop", !.i = @ + 1])
    /\ UNCHANGED <<disk, db, current_dir, lock, tasks, env, hist, changes, render>>

\* ------------------------------------------------------------ environment
\* A PDF file is written, replaced or removed.
ChangeFile(f, c) ==
    /\ MayMove
    /\ disk[f] # c
    /\ disk' = [disk EXCEPT ![f] = c]
    /\ env' = Moved
    /\ hist' = [hist EXCEPT !.quiet = FALSE]
    /\ UNCHANGED <<db, current_dir, status, lock, tasks, workers, changes, render>>

\* The process ends while idle and is started again: module state is
\* constructed anew, startup() runs, the database file is as it was left.
Restart ==
    /\ MayMove
    /\ tasks = <<>>
    /\ \A s \in Slots : ~Busy(s)
    /\ current_dir' = DATA_DIR
    /\ status' = NewStatus
    /\ lock' = FALSE
    /\ tasks' = << FALSE >>
    /\ env' = Moved
    /\ hist' = [hist EXCEPT !.quiet = @ /\ current_dir = DATA_DIR, !.outcome = "none",
                            !.pending = FALSE]
    /\ UNCHANGED <<disk, db, workers, changes, render>>

\* ------------------------------------------------------------ specification
Worker(s) ==
    \/ run_begin(s)
    \/ clear_fts(s)
    \/ clear_pages(s)
    \/ clear_files(s)
    \/ run_list(s)
    \/ run_reset(s)
    \/ run_loop(s)
    \/ index_detect(s)
    \/ index_store_file(s)
    \/ index_open(s)
    \/ index_page(s)
    \/ run_next(s)

Next ==
    \/ reindex_endpoint
    \/ \E path \in ScopeInputs : set_directory_endpoint(path)
    \/ run_indexing_async_enter
    \/ \E s \in Slots : run_indexing_async_resume(s)
    \/ \E s \in Slots : Worker(s)
    \/ \E f \in AllFiles, c \in Fingerprints \cup {Absent} : ChangeFile(f, c)
    \/ Restart

Spec == Init /\ [][Next]_vars

\* The database module called from outside a run: delete_file_by_name(filename).
\* fetchone() returns one of the rows with that filename; nothing happens when
\* there is none.
delete_file_by_name(filename) ==
    /\ MayMove
    /\ \/ /\ filename \notin get_indexed_filenames(db)
          /\ db' = db
       \/ \E row \in db.files :
             /\ row.filename = filename
             /\ db' = delete_row(db, row.id)
    /\ env' = Moved
    /\ hist' = [hist EXCEPT !.quiet = FALSE, !.delTick = ~@, !.delArg = filename]
    /\ UNCHANGED <<disk, current_dir, status, lock, tasks, workers, changes, render>>

\* The relative paths a file record may carry.
RelPaths == {RelativeTo(f, d) : f \in AllFiles, d \in {DATA_DIR, SubDir}} \ {<<>>}

NextStore ==
    \/ Next
    \/ \E filename \in RelPaths : delete_file_by_name(filename)

StoreSpec == Init /\ [][NextStore]_vars

\* The service with GET /changes-detected among its requests.
NextChanges ==
    \/ Next
    \/ changes_detected_endpoint

ChangesSpec == Init /\ [][NextChanges]_vars

\* ------------------------------------------------------------ main.py: _render_page
\* str.lower() on the letters used here.
Lower(ch) ==
    CASE ch = "A" -> "a"
      [] ch = "B" -> "b"
      [] OTHER    -> ch

LowerStr(w) == [i \in 1..Len(w) |-> Lower(w[i])]

\* term in w_text
Contains(w_text, term) ==
    \E i \in 0..(Len(w_text) - Len(term)) : SubSeq(w_text, i + 1, i + Len(term)) = term

\* [t.lower() for t in query.split() if len(t) >= 2], query given as its tokens
query_terms(query) == [i \in 1..Len(SelectSeq(query, LAMBDA tok : Len(tok) >= 2)) |->
                          LowerStr(SelectSeq(query, LAMBDA tok : Len(tok) >= 2)[i])]

\* any(term in w["text"].lower() for term in query_terms)
Matches(word, query) ==
    \E i \in 1..Len(query_terms(query)) : Contains(LowerStr(word), query_terms(query)[i])

\* The words extract_words() finds on a page, and the query strings (as the
\* tokens of query.split(); "" has none).
WordTexts == {<<"A", "b">>, <<"c", "d">>}

PageWords == UNION {[1..n -> WordTexts] : n \in 0..MaxWords}

Queries == {<<>>, << <<"a">> >>, << <<"a", "B">> >>, << <<"c">>, <<"c", "d">> >>}

\* What _render_page gave: nothing yet, the PNG of the page image with the
\* rectangles in marks (the words outlined), or an exception.
NoOutput == [kind |-> "none", marks |-> {}]

Png(img) == [kind |-> "png", marks |-> img]

RenderError == [kind |-> "error", marks |-> {}]

\* GET /page-image for an existing file: _render_page(pdf_path, page, query)
\* is about to run in the executor.
RenderInit ==
    /\ Started
    /\ render \in {[NoRender EXCEPT !.pc = "raster", !.words = w, !.query = q] :
                      w \in PageWords, q \in Queries}

RenderStep(r) ==
    /\ render' = r
    /\ UNCHANGED <<disk, db, current_dir, status, lock, tasks, workers, env, hist, changes>>

\* except Exception: pass -- the overlay is abandoned, img is what it is.
overlay_except(r) == [r EXCEPT !.pc = "save", !.failed = TRUE]

\* lines 151-153: convert_from_path; an exception, or no image, is an error.
render_raster ==
    /\ render.pc = "raster"
    /\ \/ RenderStep([render EXCEPT !.pc = IF render.query # <<>> THEN "open" ELSE "save"])
       \/ RenderStep([render EXCEPT !.pc = "error", !.out = RenderError])

\* line 159: pdfplumber.open(pdf_path)
render_open ==
    /\ render.pc = "open"
    /\ \/ RenderStep([render EXCEPT !.pc = "select"])
       \/ RenderStep(overlay_except(render))

\* line 160: p = pdf.pages[page - 1]
render_select ==
    /\ render.pc = "select"
    /\ \/ RenderStep([render EXCEPT !.pc = "words"])
       \/ RenderStep(overlay_except(render))

\* lines 161-164: extract_words, query_terms, ImageDraw.Draw(img)
render_words ==
    /\ render.pc = "words"
    /\ \/ RenderStep([render EXCEPT !.pc = "draw", !.k = 1])
       \/ RenderStep(overlay_except(render))

\* lines 165-172, one word: a rectangle is drawn on img, in place, around a
\* word that contains a query term.
render_draw ==
    /\ render.pc = "draw"
    /\ IF render.k > Len(render.words)
       THEN RenderStep([render EXCEPT !.pc = "save"])
       ELSE \/ RenderStep([render EXCEPT
                              !.k = @ + 1,
                              !.img = IF Matches(render.words[render.k], render.query)
                                      THEN @ \cup {render.k} ELSE @])
            \/ RenderStep(overlay_except(render))

\* lines 176-178: img.save(buf, format="PNG"); return buf.getvalue()
render_save ==
    /\ render.pc = "save"
    /\ RenderStep([render EXCEPT !.pc = "done", !.out = Png(render.img)])

RenderNext ==
    \/ render_raster
    \/ render_open
    \/ render_select
    \/ render_words
    \/ render_draw
    \/ render_save

RenderSpec == RenderInit /\ [][RenderNext]_vars

\* ------------------------------------------------------------ properties
Running == {s \in Slots : Busy(s)}

\* C1: at most one execution of _run_indexing is in progress in any state, and
\* every execution in progress holds the run-exclusion lock (a run begins only
\* by taking the lock when it is free).
C1_AtMostOneRun ==
    /\ Cardinality(Running) <= 1
    /\ Running # {} => lock

\* A run is in progress while another run request waits in the loop's queue.
C1_Witness == Running # {} /\ tasks # <<>> /\ lock

\* C2: a run request that finds a run active is dropped: the step changes
\* neither the run state nor the index, starts no run and leaves the request
\* out of the queue.
C2_BusyRequestDropped ==
    [][env'.dropped # env.dropped =>
         /\ lock /\ Running # {}
         /\ status' = status
         /\ db' = db
         /\ workers' = workers
         /\ lock' = lock
         /\ tasks' = Tail(tasks)]_vars

\* A request was dropped in the middle of a run over two files.
C2_Witness ==
    /\ env.dropped > 0
    /\ \E s \in Slots : workers[s].pc = "next" /\ Len(workers[s].pdf_files) = 2

\* C3: is_running is true whenever the lock is held, and when no run is in
\* progress (the last one returned or raised) the lock is free and is_running
\* is false.
C3_GuardReleased ==
    /\ lock => status.is_running
    /\ Running = {} => ~lock /\ ~status.is_running

\* After a run that raised, the lock was released and a later run holds it.
C3_Witness ==
    /\ hist.outcome = "raised"
    /\ lock /\ status.is_running
    /\ \E s \in Slots : workers[s].pc = "list"

\* C10: a failing file does not end the run. In the per-file loop
\* processed_files counts the files done, a file that fails adds one entry to
\* status.errors and one that does not adds none, a run that raises has not
\* reached the loop, and a run that returns has processed_files = total_files
\* and current_file empty.
C10_RunSurvivesFailures ==
    \A s \in Slots :
        LET w == workers[s] IN
        /\ w.pc \in {"detect", "store_file", "open", "page", "next"} =>
               /\ w.i \in 1..Len(w.pdf_files)
               /\ status.processed_files = w.i - 1
        /\ w.pc = "loop" => status.processed_files = w.i - 1
        /\ w.pc = "next" =>
               Len(status.errors) = w.errs0 + (IF w.failed THEN 1 ELSE 0)
        /\ w.pc = "raised" => w.i = 0
        /\ w.pc = "returned" =>
               /\ status.processed_files = status.total_files
               /\ status.total_files = Len(w.pdf_files)
               /\ Len(status.errors) = Cardinality(w.bad)
               /\ status.current_file = ""

\* A run over two files returned although its first file failed.
C10_Witness ==
    \E s \in Slots :
        /\ workers[s].pc = "returned"
        /\ status.total_files = 2
        /\ \E b \in workers[s].bad : b.path = FileA

\* The run in slot s is an incremental run that follows an incremental run
\* which returned, and no file, scope or index was changed from outside since
\* that earlier run began.
SecondRun(s) == Busy(s) /\ workers[s].second /\ hist.quiet

\* The page records of the file records with one of the ids.
PagesOf(d, ids) == {p \in d.pages : p.file_id \in ids}

IdsOf(d, filename) == {r.id : r \in {x \in d.files : x.filename = filename}}

\* C4 as stated: the second of two incremental runs over an unchanged
\* directory and scope changes nothing in the store.
C4_SecondRunInsertsNothing ==
    [][(\E s \in Slots : SecondRun(s)) => db' = db]_vars

\* C4, amended: the second of two incremental runs over an unchanged directory
\* and scope removes nothing and inserts nothing for a file that has a record
\* with its path and fingerprint; it inserts a file record (and that record's
\* pages) only for a file the first run left without a record because its
\* fingerprinting or its file-record insert failed.
C4_SecondRunSkipsRecorded ==
    [][\A s \in Slots : SecondRun(s) =>
          /\ db.files \subseteq db'.files
          /\ db.pages \subseteq db'.pages
          /\ db.fts \subseteq db'.fts
          /\ \A r \in db'.files \ db.files :
                /\ \E f \in hist.unrec : r.filename = RelativeTo(f, DATA_DIR)
                /\ \A x \in db.files :
                      x.filename # r.filename \/ x.file_hash # r.file_hash
          /\ \A p \in db'.pages \ db.pages : p.file_id \in workers[s].created
          /\ \A e \in db'.fts \ db.fts :
                \E p \in db'.pages \ db.pages : p.id = e.rowid]_vars

\* The second run returned: it listed two files, both with a record, and
\* created nothing.
C4_Witness ==
    \E s \in Slots :
        /\ SecondRun(s)
        /\ workers[s].pc = "returned"
        /\ status.total_files = 2
        /\ workers[s].created = {}
        /\ Cardinality(db.files) = 2

\* C5 as stated: after an incremental run that created a record for a path
\* whose content changed, the pages of the record with the old fingerprint are
\* gone (all records here are relative to DATA_DIR: the scope never changed).
C5_OldPagesRemoved ==
    \A s \in Slots :
        (workers[s].pc = "returned" /\ ~workers[s].full /\ ~hist.scoped) =>
            \A new \in db.files, old \in db.files :
                (/\ new.id \in workers[s].created
                 /\ old.filename = new.filename
                 /\ old.file_hash # new.file_hash)
                => PagesOf(db, {old.id}) = {}

\* C6 as stated: after a run that began when an indexed path was no longer on
\* disk and still is not, the store holds no file record and no page record of
\* that path.
C6_RemovedFilesDeleted ==
    \A s \in Slots :
        (workers[s].pc = "returned" /\ ~hist.scoped) =>
            \A filename \in workers[s].gone \ DiskRel(current_dir) :
                /\ IdsOf(db, filename) = {}
                /\ PagesOf(db, IdsOf(db, filename)) = {}

\* C7 as stated: in every state the full-text entries are exactly the page
\* records, one entry with the page's rowid and content for each page.
C7_OneEntryPerPage ==
    /\ \A p \in db.pages :
          Cardinality({e \in db.fts : e.rowid = p.id}) = 1
          /\ [rowid |-> p.id, content |-> p.content] \in db.fts
    /\ \A e \in db.fts : \E p \in db.pages : p.id = e.rowid

\* C8 as stated: delete_file_by_name(path) leaves no file record with that
\* path and none of the pages and full-text entries of the records that had it,
\* and changes nothing when the path is not indexed.
C8_DeleteCascades ==
    [][hist'.delTick # hist.delTick =>
         LET filename == hist'.delArg
             ids == IdsOf(db, filename)
             pids == {p.id : p \in PagesOf(db, ids)} IN
         /\ IdsOf(db', filename) = {}
         /\ PagesOf(db', ids) = {}
         /\ {e \in db'.fts : e.rowid \in pids} = {}
         /\ ids = {} => db' = db]_vars

\* C9 as stated: after a run, a file whose indexing failed has no file record,
\* no page record and no full-text entry, and each failure is in status.errors.
C9_FailedFileLeavesNothing ==
    \A s \in Slots :
        workers[s].pc = "returned" =>
            /\ Len(status.errors) = Cardinality(workers[s].bad)
            /\ \A b \in workers[s].bad :
                  /\ \A r \in db.files : r.id # b.file_id
                  /\ PagesOf(db, {b.file_id}) = {}

\* C11 as stated: no failure inside _run_indexing crosses the run boundary. No
\* execution of _run_indexing ends by raising, and the run starts its listing
\* with status.errors holding only what that run recorded (nothing: the list
\* was reset and no file was processed yet).
C11_NoErrorCrossesRun ==
    \A s \in Slots :
        /\ workers[s].pc # "raised"
        /\ workers[s].pc = "list" => status.errors = <<>>

\* C12 as stated: the active scope is the base directory or one of its
\* descendants in every state.
C12_ScopeWithinBase == IsUnder(current_dir, DATA_DIR)

\* C13: no two file records carry the same (path, fingerprint) pair.
C13_OneRecordPerPair ==
    \A r1 \in db.files, r2 \in db.files :
        (r1.filename = r2.filename /\ r1.file_hash = r2.file_hash) => r1.id = r2.id

\* A run returned leaving two records of one path with different fingerprints:
\* the path was indexed, its file modified, and indexed again.
C13_Witness ==
    /\ \E s \in Slots : workers[s].pc = "returned"
    /\ \E r1 \in db.files, r2 \in db.files :
          r1.filename = r2.filename /\ r1.file_hash # r2.file_hash

\* C20 as stated: in every state a status query can observe,
\* 0 <= processed_files <= total_files.
C20_ProcessedWithinTotal ==
    /\ 0 <= status.processed_files
    /\ status.processed_files <= status.total_files

\* C14: a call of check_for_changes answers with the number of PDF paths on
\* disk under the active scope that no file record carries, the number of
\* recorded paths that are not on disk under the scope, and has_changes true
\* exactly when one of the two is not zero; the call leaves the store, the
\* run state, the scope and the queue as they were.
C14_ChangesIsSetComparison ==
    [][(changes'.tick # changes.tick /\ ~status.is_running) =>
         LET on_disk == {RelativeTo(f, current_dir) :
                            f \in {g \in AllFiles :
                                      disk[g] # Absent /\ IsUnder(g, current_dir)}}
             indexed == {r.filename : r \in db.files}
             resp == changes'.resp IN
         /\ resp.new_files = Cardinality({x \in on_disk : x \notin indexed})
         /\ resp.deleted_files = Cardinality({x \in indexed : x \notin on_disk})
         /\ resp.has_changes <=> (on_disk # indexed)
         /\ UNCHANGED <<disk, db, current_dir, status, lock, tasks, workers>>]_vars

\* The answer while no run is in progress: one path on disk is not indexed and
\* one indexed path is not on disk.
C14_Witness ==
    /\ changes.tick
    /\ ~status.is_running
    /\ changes.resp = [has_changes |-> TRUE, new_files |-> 1, deleted_files |-> 1]

\* C15: for each page extracted, _ocr_page_image is called exactly when the
\* trimmed native text has fewer than 50 characters; the resulting text is the
\* native text when it has 50 characters or more and what OCR returned
\* otherwise; and the step adds a page record of that file, page number and
\* text exactly when the resulting text is not empty (and store_page did not
\* raise), adding nothing otherwise.
C15_ExtractionPolicy ==
    [][\A s \in Slots :
          LET w == workers[s]
              x == workers'[s].extracted
              added == db'.pages \ db.pages IN
          (w.pc = "page" /\ x # w.extracted) =>
              /\ x.page = w.page
              /\ x.native = Pages(w.pdf)[w.page].native
              /\ x.ocr_ran <=> x.native < 50
              /\ x.len = IF x.native >= 50 THEN x.native
                         ELSE ocr_page_image(w.pdf_files[w.i], w.page)
              /\ (x.len > 0 /\ ~workers'[s].failed) <=> added # {}
              /\ \A p \in added :
                    /\ p.file_id = w.file_id
                    /\ p.page_number = x.page
                    /\ p.content.len = x.len
                    /\ p.content.src = IF x.ocr_ran THEN "ocr" ELSE "native"]_vars

\* One run stored a page from OCR text (native length 10) and a page from
\* native text (length 80, no OCR), and has just left a page unstored whose
\* native text had 49 characters and for which OCR returned nothing.
C15_Witness ==
    /\ \E p \in db.pages : p.content = Text("ocr", 60)
    /\ \E p \in db.pages : p.content = Text("native", 80)
    /\ \E s \in Slots :
          /\ workers[s].extracted = [page |-> 2, native |-> 49, ocr_ran |-> TRUE, len |-> 0]
          /\ Cardinality(workers[s].created) = 2
          /\ Cardinality(db.pages) = 3

\* C16: within one run the files listed are in ascending path order with no
\* path twice, and the run goes through them one by one in that order; a page
\* record is added only by the run, for the file it is processing, with the
\* page number it has reached, which is at least 1 and above every page
\* number already stored for that file record; and when a page is added no
\* page of a later file record exists, and the file record it belongs to is
\* the last one created.
C16_ProcessingOrder ==
    [][/\ \A s \in Slots :
             LET w == workers[s]
                 v == workers'[s] IN
             /\ \A i, j \in 1..Len(w.pdf_files) :
                    i < j => PathLess(w.pdf_files[i], w.pdf_files[j])
             /\ (Busy(s) /\ v.pc # "idle") =>
                    /\ v.i \in {w.i, w.i + 1}
                    /\ v.i = w.i + 1 => w.pc \in {"reset", "next"}
                    /\ w.pc \notin {"begin", "clear_fts", "clear_pages",
                                    "clear_files", "list"} => v.pdf_files = w.pdf_files
       /\ \A p \in db'.pages \ db.pages :
             \E s \in Slots :
                LET w == workers[s] IN
                /\ w.pc = "page"
                /\ p.file_id = w.file_id
                /\ p.page_number = w.page
                /\ p.page_number >= 1
                /\ \A q \in db.pages :
                      /\ q.file_id = p.file_id => q.page_number < p.page_number
                      /\ q.file_id <= p.file_id
                /\ p.file_id = db.seq_files
                /\ \E r \in db.files :
                      /\ r.id = p.file_id
                      /\ r.filename = w.rel_path]_vars

\* A run over two files has stored pages 1 and 2 of its first file and then
\* page 1 of its second file.
C16_Witness ==
    \E s \in Slots :
        LET w == workers[s] IN
        /\ w.pdf_files = <<FileA, FileSubA>>
        /\ w.i = 2
        /\ \E a \in w.created, b \in w.created :
              /\ a < b
              /\ {p.page_number : p \in PagesOf(db, {a})} = {1, 2}
              /\ {p.page_number : p \in PagesOf(db, {b})} = {1}
              /\ b = w.file_id

\* C17 as stated: the path a run puts in a file record is the file's path
\* relative to the scope under which the run listed its files, and no file of
\* the listing fails because it is not under the active scope (ValueError of
\* relative_to), whatever set_current_dir did during the run.
C17_PathsRelativeToListingScope ==
    /\ \A s \in Slots :
          LET w == workers[s] IN
          w.pc \in {"store_file", "open", "page"} =>
              w.rel_path = RelativeTo(w.pdf_files[w.i], w.root)
    /\ \A k \in 1..Len(status.errors) : status.errors[k].exc # "ValueError"

\* C19 as stated: after set_current_dir succeeded, a full reindex that lists
\* under the new scope runs to completion. When the service has come to rest
\* (no run in progress, no run request queued, the last run did not raise)
\* with a scope inside the base directory, no successful scope change is left
\* without such a reindex.
C19_ScopeChangeReindexed ==
    (/\ tasks = <<>>
     /\ Running = {}
     /\ hist.outcome # "raised"
     /\ IsUnder(current_dir, DATA_DIR)) => ~hist.pending

\* C18 as stated: when a query was given and the overlay step raised, what
\* _render_page returns is the PNG of the unannotated page image, the bytes
\* an empty query gives; and _render_page raises only when rasterization
\* failed.
C18_OverlayFailureUnannotated ==
    /\ (render.pc = "done" /\ render.failed) => render.out = Png({})
    /\ (render.pc = "done" /\ render.query = <<>>) => render.out = Png({})
    /\ render.pc = "error" => ~render.failed /\ render.img = {}

====
